---- MODULE Spec2Model ----
(***************************************************************************)
(* Smart Guard: the MQTT message handler of main.py (validation, identity  *)
(* lookup, registration check, unlock publish, attendance recording).      *)
(*                                                                         *)
(* The paho network thread runs one callback at a time; each store call,   *)
(* and the publish, is one step of the handler.                            *)
(*                                                                         *)
(*   Spec            the handler over every initial store and message      *)
(*   SpecValidators  the two validators over every combination of fields   *)
(*   SpecRollover    the handler while sessions/active and the sessions    *)
(*                   are changed by other clients of the database          *)
(*   SpecRevoke      the handler while users/students is changed by them   *)
(*   SpecShutdown    the handler, the signal handler and main's teardown   *)
(***************************************************************************)
EXTENDS Integers, Sequences, FiniteSets, TLC

\* Wall-clock readings of time.time() lie in 0..MaxNow (milliseconds).
MaxNow == 1

(***************************************************************************)
(* JSON / Python values: a type tag and the literal's text.                *)
(***************************************************************************)
JV(t, v) == [t |-> t, v |-> v]
Absent == JV("absent", "")
JNull == JV("null", "null")
JTrue == JV("bool", "true")
JFalse == JV("bool", "false")
JInt(v) == JV("int", v)
JStr(v) == JV("str", v)
JFloat(v) == JV("float", v)
JArr == JV("array", "[]")
JObj == JV("object", "{}")

\* isinstance(x, int): Python's bool is a subclass of int.
IsInstanceInt(x) == x.t \in {"int", "bool"}

\* isinstance(x, str)
IsInstanceStr(x) == x.t = "str"

\* Python truth value of x, with an absent dict key read through .get(k, False).
Truthy(x) ==
    CASE x.t = "bool" -> x.v = "true"
      [] x.t = "int" -> x.v # "0"
      [] x.t = "float" -> x.v # "0.0"
      [] x.t = "str" -> x.v # ""
      [] x.t \in {"array", "object"} -> FALSE
      [] OTHER -> FALSE

\* x == True in Python: True itself, and the numbers equal to 1.
EqTrue(x) == x = JTrue \/ x = JInt("1") \/ x = JFloat("1.0")

\* str(x) of a value that passed isinstance(x, int).
PyStr(x) ==
    IF x.t = "bool" THEN (IF x.v = "true" THEN "True" ELSE "False") ELSE x.v

(***************************************************************************)
(* Configuration.                                                          *)
(***************************************************************************)
MQTT_TOPICS ==
    [card |-> "smartguard/verify/card",
     fingerprint |-> "smartguard/verify/fingerprint",
     lock_open |-> "smartguard/lock/open"]

TopicValues == {MQTT_TOPICS[k] : k \in DOMAIN MQTT_TOPICS}

(***************************************************************************)
(* Inbound payloads.  kind says what msg.payload.decode() and json.loads   *)
(* make of the bytes:                                                      *)
(*   undecodable  bytes that are not UTF-8                                 *)
(*   notjson      text that is not JSON (the lock's own "OK" is one)       *)
(*   jscalar      a JSON number, boolean or null                           *)
(*   jlist        a JSON array or string not holding the field names       *)
(*   jnames       a JSON array or string holding every field name          *)
(*   object       a JSON object, fields in obj (Absent: key not present)   *)
(***************************************************************************)
Fields == {"card_reader", "card_id", "fingerprint_reader", "fingerprint_id"}

Object(cr, ci, fr, fi) ==
    [card_reader |-> cr, card_id |-> ci,
     fingerprint_reader |-> fr, fingerprint_id |-> fi]

NoFields == Object(Absent, Absent, Absent, Absent)

Payload(kind, obj) == [kind |-> kind, obj |-> obj]

NonObjectKinds == {"undecodable", "notjson", "jscalar", "jlist", "jnames"}

NonObjectPayloads == {Payload(k, NoFields) : k \in NonObjectKinds}

\* field in data (lines 48, 63); raises TypeError on a number, boolean or null.
FieldIn(field, data) ==
    CASE data.kind = "object" -> data.obj[field] # Absent
      [] data.kind = "jnames" -> TRUE
      [] OTHER -> FALSE

Validation(exc, is_valid, message) ==
    [exc |-> exc, is_valid |-> is_valid, message |-> message]

NoValidation == Validation(FALSE, FALSE, "")

TypeErrorRaised == Validation(TRUE, FALSE, "TypeError")

\* validate_card_message with the two type checks in the other order.
validate_card_message_id_first(data) ==
    IF data.kind = "jscalar" THEN TypeErrorRaised
    ELSE IF ~ \A field \in {"card_reader", "card_id"} : FieldIn(field, data)
    THEN Validation(FALSE, FALSE, "Missing required fields. Expected: ['card_reader', 'card_id']")
    ELSE IF data.kind # "object" THEN TypeErrorRaised
    ELSE IF ~ IsInstanceStr(data.obj["card_id"])
    THEN Validation(FALSE, FALSE, "card_id must be a string")
    ELSE IF ~ IsInstanceInt(data.obj["card_reader"])
    THEN Validation(FALSE, FALSE, "card_reader must be an integer")
    ELSE Validation(FALSE, TRUE, "Valid card message")

validate_card_message(data) ==
    IF data.kind = "jscalar" THEN TypeErrorRaised
    ELSE IF ~ \A field \in {"card_reader", "card_id"} : FieldIn(field, data)
    THEN Validation(FALSE, FALSE, "Missing required fields. Expected: ['card_reader', 'card_id']")
    ELSE IF data.kind # "object" THEN TypeErrorRaised
    ELSE IF ~ IsInstanceInt(data.obj["card_reader"])
    THEN Validation(FALSE, FALSE, "card_reader must be an integer")
    ELSE IF ~ IsInstanceStr(data.obj["card_id"])
    THEN Validation(FALSE, FALSE, "card_id must be a string")
    ELSE Validation(FALSE, TRUE, "Valid card message")

validate_fingerprint_message(data) ==
    IF data.kind = "jscalar" THEN TypeErrorRaised
    ELSE IF ~ \A field \in {"fingerprint_reader", "fingerprint_id"} : FieldIn(field, data)
    THEN Validation(FALSE, FALSE,
            "Missing required fields. Expected: ['fingerprint_reader', 'fingerprint_id']")
    ELSE IF data.kind # "object" THEN TypeErrorRaised
    ELSE IF ~ IsInstanceInt(data.obj["fingerprint_reader"])
    THEN Validation(FALSE, FALSE, "fingerprint_reader must be an integer")
    ELSE IF ~ IsInstanceInt(data.obj["fingerprint_id"])
    THEN Validation(FALSE, FALSE, "fingerprint_id must be an integer")
    ELSE Validation(FALSE, TRUE, "Valid fingerprint message")

(***************************************************************************)
(* The store (Firebase Realtime Database).                                 *)
(*   students    users/students/{rfid}, a function on the keys present     *)
(*   active      sessions/active                                           *)
(*   sessions    sessions/{key} without its attendance child               *)
(*   attendance  the values stored under sessions/{key}/attendance/{rfid}, *)
(*               a set of (path, val) pairs                                *)
(***************************************************************************)
VARIABLES firebase_connected, subscribed, students, active, sessions, attendance

\* The handler: its position and its locals, named as in on_message.
VARIABLES pc, msg, validation, found, student_data, rfid, firebase_key,
          session_start_ms

\* What the current handler invocation has done: its store calls and publishes
\* in order (trace), the outcome lines it printed (reports), and the entry each
\* successful attendance write produced, latest per path (granted).
VARIABLES trace, reports, granted

\* The store as it was when the handler in progress was entered (when idle: as
\* it is).
VARIABLES entry_store

\* The main thread: the running flag, main's position (wait, loop_stop,
\* disconnect, delete_app, complete), the network loop thread that loop_start
\* created (running, terminating, stopped) and the teardown calls made so far.
VARIABLES running, main_pc, loop_thread, teardown

configVars == <<firebase_connected, subscribed>>
mainVars == <<running, main_pc, loop_thread, teardown>>
storeVars == <<students, active, sessions, attendance>>
localVars == <<msg, validation, found, student_data, rfid, firebase_key,
               session_start_ms>>
logVars == <<trace, reports>>
vars == <<configVars, storeVars, pc, localVars, logVars, granted, entry_store,
          mainVars>>

FpKeys == {"7", "8", "9", "True"}

Fprints(present, map) == [present |-> present, map |-> map]

NoFprints == Fprints(FALSE, [k \in FpKeys |-> Absent])

Student(name, student_id, registered, fprints) ==
    [name |-> name, student_id |-> student_id, registered |-> registered,
     fprints |-> fprints]

NoStudent == Student(Absent, Absent, Absent, NoFprints)

\* The order in which all_students.items() yields the records.
StudentOrder == <<"A1B2C3", "C4D5E6">>

ActiveSession(present, firebaseKey) ==
    [present |-> present, firebaseKey |-> firebaseKey]

Session(exists, started) == [exists |-> exists, started |-> started]

SessionKeys == {"S1", "S2"}

\* datetime.fromisoformat(s.replace('Z', '+00:00')).timestamp() * 1000, on the
\* timestamps the model uses; any other text raises ValueError.
IsoMs ==
    [t \in {"1970-01-01T00:00:00.000Z", "1970-01-01T00:00:00.001Z"} |->
        IF t = "1970-01-01T00:00:00.000Z" THEN 0 ELSE 1]

\* Whether lines 143-145 run without raising on session_data['started'].
StartedParsesAnyText(started) == started.t = "str"

StartedParses(started) == started.t = "str" /\ started.v \in DOMAIN IsoMs

\* One store call, publish or clock reading of the handler: op names the call
\* (lookup_rfid, lookup_fingerprint, publish, read_active, read_session, clock,
\* write_attendance), ok is FALSE when the store call raised or the publish
\* returned rc # 0.
Effect(op, target, payload, ok) ==
    [op |-> op, target |-> target, payload |-> payload, ok |-> ok]

StudentPath(key) == "users/students/" \o key
SessionPath(key) == "sessions/" \o key
AttendancePath(key, cred) == "sessions/" \o key \o "/attendance/" \o cred

(***************************************************************************)
(* Identity lookups.  raises: the store call raised.                       *)
(***************************************************************************)
Lookup(f, data, key) == [found |-> f, student_data |-> data, rfid |-> key]

NotFound == Lookup(FALSE, NoStudent, "")

\* The lookup answered from the collection as it was when the handler was entered.
check_student_by_rfid_prefetched(key, raises) ==
    IF raises THEN NotFound
    ELSE IF key \in DOMAIN entry_store[1] THEN Lookup(TRUE, entry_store[1][key], key)
    ELSE NotFound

check_student_by_rfid(key, raises) ==
    IF raises THEN NotFound
    ELSE IF key \in DOMAIN students THEN Lookup(TRUE, students[key], key)
    ELSE NotFound

\* Lines 97-100 for one record.
FingerprintMatchesAnyValue(data, fingerprint_id) ==
    /\ data.fprints.present
    /\ PyStr(fingerprint_id) \in FpKeys
    /\ data.fprints.map[PyStr(fingerprint_id)] # Absent

FingerprintMatches(data, fingerprint_id) ==
    /\ data.fprints.present
    /\ PyStr(fingerprint_id) \in FpKeys
    /\ data.fprints.map[PyStr(fingerprint_id)] # Absent
    /\ EqTrue(data.fprints.map[PyStr(fingerprint_id)])

RECURSIVE ScanStudents(_, _, _)
ScanStudents(all_students, order, fingerprint_id) ==
    IF order = <<>> THEN NotFound
    ELSE IF /\ Head(order) \in DOMAIN all_students
            /\ FingerprintMatches(all_students[Head(order)], fingerprint_id)
    THEN Lookup(TRUE, all_students[Head(order)], Head(order))
    ELSE ScanStudents(all_students, Tail(order), fingerprint_id)

check_student_by_fingerprint(fingerprint_id, raises) ==
    IF raises THEN NotFound
    ELSE ScanStudents(students, StudentOrder, fingerprint_id)

\* Lines 238 and 293: student_data.get('registered', False) as a condition.
IsRegisteredAlways(data) == TRUE

IsRegistered(data) == Truthy(data.registered)

\* Lines 224 and 273.
StoreGuardOpen == TRUE

StoreGuard == firebase_connected

(***************************************************************************)
(* Attendance recorder.                                                    *)
(***************************************************************************)
\* Lines 111-123: the key returned, JNull for None.
get_active_session(raises) ==
    IF raises THEN JNull
    ELSE IF active.present /\ active.firebaseKey # Absent THEN active.firebaseKey
    ELSE JNull

\* Lines 129-145: the outcome of the first half of save_attendance.
SessionCheckNoStartCheck(key, raises) ==
    IF raises THEN "raised"
    ELSE IF key \notin DOMAIN sessions \/ ~ sessions[key].exists THEN "no_session"
    ELSE "ok"

SessionCheck(key, raises) ==
    IF raises THEN "raised"
    ELSE IF key \notin DOMAIN sessions \/ ~ sessions[key].exists THEN "no_session"
    ELSE IF sessions[key].started = Absent THEN "no_started"
    ELSE IF ~ StartedParses(sessions[key].started) THEN "raised"
    ELSE "ok"

\* session_data['started'] as read at line 143, "" when that line is not reached.
StartedRead(key, raises) ==
    IF SessionCheck(key, raises) = "ok" THEN sessions[key].started.v ELSE ""

\* session_start_ms once SessionCheck is "ok".
SessionStartMs(key) ==
    IF key \in DOMAIN sessions /\ sessions[key].started.v \in DOMAIN IsoMs
    THEN IsoMs[sessions[key].started.v] ELSE 0

\* dict.get(k, 'Unknown') of a string attribute.
GetOrUnknown(x) == IF x = Absent THEN "Unknown" ELSE x.v

\* Lines 151-159.
AttendanceDataClamped(method, data, current_time_ms, start_ms) ==
    [method |-> method,
     name |-> GetOrUnknown(data.name),
     studentId |-> GetOrUnknown(data.student_id),
     timeIn |-> IF current_time_ms < start_ms THEN "0"
                ELSE ToString(current_time_ms - start_ms)]

AttendanceData(method, data, current_time_ms, start_ms) ==
    [method |-> method,
     name |-> GetOrUnknown(data.name),
     studentId |-> GetOrUnknown(data.student_id),
     timeIn |-> ToString(current_time_ms - start_ms)]

\* db.reference(path).set(val): the value at path is replaced.
DbPush(db, path, val) == db \cup {[path |-> path, val |-> val]}

DbSetWholeCollection(db, path, val) == {[path |-> path, val |-> val]}

DbSet(db, path, val) ==
    {e \in db : e.path # path} \cup {[path |-> path, val |-> val]}

\* Line 241 / 296: where the handler goes after publish returned rc.
AfterPublishIgnoringRc(rc) == "get_active_session"

AfterPublish(rc) == IF rc = 0 THEN "get_active_session" ELSE "done"

PublishRcs == {0, 4}

(***************************************************************************)
(* Initial store contents and inbound messages.                            *)
(***************************************************************************)
RegisteredValues == {JTrue, JFalse, Absent, JStr("false")}

StudentA(registered) ==
    Student(JStr("Jane Doe"), JStr("2021-001"), registered,
            Fprints(TRUE, [k \in FpKeys |->
                CASE k = "7" -> JTrue [] k = "8" -> JFalse [] OTHER -> Absent]))

StudentB(hasFprints) ==
    Student(Absent, Absent, JTrue,
            IF hasFprints
            THEN Fprints(TRUE, [k \in FpKeys |->
                    IF k \in {"7", "9"} THEN JTrue ELSE Absent])
            ELSE NoFprints)

StudentStores ==
    {("C4D5E6" :> StudentB(h)) : h \in BOOLEAN}
    \cup {("A1B2C3" :> StudentA(r)) @@ ("C4D5E6" :> StudentB(h)) :
            r \in RegisteredValues, h \in BOOLEAN}

ActiveValues ==
    {ActiveSession(FALSE, Absent), ActiveSession(TRUE, Absent),
     ActiveSession(TRUE, JStr("")), ActiveSession(TRUE, JStr("S1")),
     ActiveSession(TRUE, JStr("S2"))}

SessionValues ==
    {Session(FALSE, Absent), Session(TRUE, Absent),
     Session(TRUE, JStr("not-a-date")),
     Session(TRUE, JStr("1970-01-01T00:00:00.000Z"))}

SessionStores ==
    {("S1" :> Session(TRUE, JStr("1970-01-01T00:00:00.001Z"))) @@ ("S2" :> s) :
        s \in SessionValues}

CardObjects ==
    {Object(JInt("1"), JStr(c), Absent, Absent) : c \in {"A1B2C3", "C4D5E6", "ZZZZZZ"}}
    \cup {Object(cr, JStr("A1B2C3"), Absent, Absent) : cr \in {JTrue, JStr("1"), Absent}}
    \cup {Object(JInt("1"), ci, Absent, Absent) : ci \in {JInt("7"), Absent}}

FingerprintObjects ==
    {Object(Absent, Absent, JInt("2"), fi) :
        fi \in {JInt("7"), JInt("8"), JInt("9"), JTrue, JStr("7"), Absent}}
    \cup {Object(Absent, Absent, fr, JInt("7")) : fr \in {JStr("2"), Absent}}

Message(topic, payload) == [topic |-> topic, payload |-> payload]

NoMessage == Message("", Payload("none", NoFields))

Messages ==
    {Message(MQTT_TOPICS.card, Payload("object", o)) :
        o \in CardObjects \cup {Object(Absent, Absent, JInt("2"), JInt("7"))}}
    \cup {Message(MQTT_TOPICS.fingerprint, Payload("object", o)) :
        o \in FingerprintObjects \cup {Object(JInt("1"), JStr("A1B2C3"), Absent, Absent)}}
    \cup {Message(MQTT_TOPICS.lock_open, Payload("object", o)) :
        o \in {Object(JInt("1"), JStr("A1B2C3"), Absent, Absent),
               Object(Absent, Absent, JInt("2"), JInt("7"))}}
    \cup {Message(t, p) : t \in TopicValues, p \in NonObjectPayloads}

\* Lines 35 and 389: running is True and loop_start has started the network
\* loop thread; main is in its wait loop (lines 396-398).
MainInit ==
    /\ running = TRUE
    /\ main_pc = "wait"
    /\ loop_thread = "running"
    /\ teardown = <<>>

Init ==
    /\ firebase_connected \in BOOLEAN
    /\ subscribed = {}
    /\ students \in StudentStores
    /\ active \in ActiveValues
    /\ sessions \in SessionStores
    /\ attendance = {}
    /\ pc = "idle"
    /\ msg = NoMessage
    /\ validation = NoValidation
    /\ found = FALSE
    /\ student_data = NoStudent
    /\ rfid = ""
    /\ firebase_key = JNull
    /\ session_start_ms = 0
    /\ trace = <<>>
    /\ reports = <<>>
    /\ granted = {}
    /\ entry_store = storeVars
    /\ MainInit

(***************************************************************************)
(* Callbacks.                                                              *)
(***************************************************************************)
\* on_connect (lines 182-192), called by the network thread between messages.
OnConnect(rc) ==
    /\ pc = "idle"
    /\ loop_thread # "stopped"
    /\ subscribed' = IF rc = 0 THEN subscribed \cup TopicValues ELSE subscribed
    /\ UNCHANGED <<firebase_connected, storeVars, pc, localVars, logVars, granted,
                   entry_store, mainVars>>

\* The broker delivers a message of a subscribed topic: on_message is entered.
Deliver(m) ==
    /\ pc = "idle"
    /\ loop_thread # "stopped"
    /\ m.topic \in subscribed
    /\ pc' = "on_message"
    /\ msg' = m
    /\ entry_store' = storeVars
    /\ UNCHANGED <<configVars, mainVars, storeVars, validation, found, student_data, rfid,
                   firebase_key, session_start_ms, logVars, granted>>

\* Lines 216, 265, 320: the branch on_message takes for a topic.
TopicBranchNoElse(topic) ==
    IF topic = MQTT_TOPICS.card THEN "card" ELSE "fingerprint"

TopicBranch(topic) ==
    IF topic = MQTT_TOPICS.card THEN "card"
    ELSE IF topic = MQTT_TOPICS.fingerprint THEN "fingerprint"
    ELSE "unknown"

\* The handler ends with the outcome line r.
Finish(r) == pc' = "done" /\ reports' = Append(reports, r)

\* Lines 201-224 and 260-275, 315-326: decode, parse, validate, store guard.
Dispatch ==
    /\ pc = "on_message"
    /\ LET data == msg.payload
           v == CASE TopicBranch(msg.topic) = "card" -> validate_card_message(data)
                  [] TopicBranch(msg.topic) = "fingerprint" ->
                        validate_fingerprint_message(data)
                  [] OTHER -> NoValidation
       IN  IF data.kind = "undecodable"
           THEN pc' = "raised" /\ UNCHANGED <<reports, validation>>
           ELSE IF data.kind = "notjson"
           THEN Finish("JSON Parse Error") /\ UNCHANGED validation
           ELSE IF TopicBranch(msg.topic) = "unknown"
           THEN Finish("Unknown topic") /\ UNCHANGED validation
           ELSE /\ validation' = v
                /\ IF v.exc THEN Finish("Error processing message")
                   ELSE IF ~ v.is_valid THEN Finish("INVALID")
                   ELSE IF ~ StoreGuard
                   THEN Finish("Firebase not connected, skipping database check")
                   ELSE /\ pc' = IF TopicBranch(msg.topic) = "card"
                                 THEN "check_student_by_rfid"
                                 ELSE "check_student_by_fingerprint"
                        /\ reports' = Append(reports, "VALID")
    /\ UNCHANGED <<configVars, mainVars, storeVars, msg, found, student_data, rfid,
                   firebase_key, session_start_ms, trace, granted, entry_store>>

\* Lines 228-238, 255-259 and 277-293, 310-314: the branch taken on a lookup result.
AfterLookup(r) ==
    /\ found' = r.found
    /\ student_data' = r.student_data
    /\ rfid' = r.rfid
    /\ IF ~ r.found THEN Finish("NOT Found in Firebase")
       ELSE IF ~ IsRegistered(r.student_data)
       THEN Finish("User is NOT registered - Access DENIED")
       ELSE pc' = "publish" /\ reports' = Append(reports, "User is REGISTERED")

\* Line 226 and its branches.
CheckStudentByRfid(raises) ==
    /\ pc = "check_student_by_rfid"
    /\ trace' = Append(trace,
            Effect("lookup_rfid", StudentPath(msg.payload.obj["card_id"].v), "", ~ raises))
    /\ AfterLookup(check_student_by_rfid(msg.payload.obj["card_id"].v, raises))
    /\ UNCHANGED <<configVars, mainVars, storeVars, msg, validation, firebase_key,
                   session_start_ms, granted, entry_store>>

\* Line 275 and its branches.
CheckStudentByFingerprint(raises) ==
    /\ pc = "check_student_by_fingerprint"
    /\ trace' = Append(trace, Effect("lookup_fingerprint", "users/students", "", ~ raises))
    /\ AfterLookup(check_student_by_fingerprint(msg.payload.obj["fingerprint_id"], raises))
    /\ UNCHANGED <<configVars, mainVars, storeVars, msg, validation, firebase_key,
                   session_start_ms, granted, entry_store>>

\* Lines 240-242, 253-254 and 295-297, 308-309.
Publish(rc) ==
    /\ pc = "publish"
    /\ trace' = Append(trace, Effect("publish", MQTT_TOPICS.lock_open, "OK", rc = 0))
    /\ IF AfterPublish(rc) = "done"
       THEN Finish("Failed to publish unlock command")
       ELSE pc' = AfterPublish(rc) /\ reports' = Append(reports, "Published 'OK'")
    /\ UNCHANGED <<configVars, mainVars, storeVars, localVars, granted, entry_store>>

\* The card_id of the event or the rfid the scan matched (lines 250, 305).
CredentialKey ==
    IF msg.topic = MQTT_TOPICS.card THEN msg.payload.obj["card_id"].v ELSE rfid

\* The session key in the path of line 162: save_attendance's firebase_key.
AttendanceSessionKeyReread ==
    IF active.present /\ active.firebaseKey.t = "str" THEN active.firebaseKey.v
    ELSE firebase_key.v

AttendanceSessionKey == firebase_key.v

\* RFID for the card branch, Fingerprint for the other (lines 250, 305).
Method == IF msg.topic = MQTT_TOPICS.card THEN "RFID" ELSE "Fingerprint"

\* Lines 246-252 and 301-307.
GetActiveSession(raises) ==
    /\ pc = "get_active_session"
    /\ trace' = Append(trace, Effect("read_active", "sessions/active",
                                    get_active_session(raises).v, ~ raises))
    /\ firebase_key' = get_active_session(raises)
    /\ IF Truthy(get_active_session(raises))
       THEN pc' = "save_attendance" /\ UNCHANGED reports
       ELSE Finish("No active session - Attendance not saved")
    /\ UNCHANGED <<configVars, mainVars, storeVars, msg, validation, found, student_data,
                   rfid, session_start_ms, granted, entry_store>>

\* Lines 129-145: read the session and its start time.
SaveAttendanceGet(raises) ==
    /\ pc = "save_attendance"
    /\ trace' = Append(trace, Effect("read_session", SessionPath(firebase_key.v),
                                    StartedRead(firebase_key.v, raises), ~ raises))
    /\ LET c == SessionCheck(firebase_key.v, raises)
       IN  CASE c = "no_session" ->
                    Finish("Session does not exist") /\ UNCHANGED session_start_ms
             [] c = "no_started" ->
                    Finish("Session start time not found") /\ UNCHANGED session_start_ms
             [] c = "raised" ->
                    Finish("Error saving attendance") /\ UNCHANGED session_start_ms
             [] OTHER ->
                    /\ pc' = "attendance_set"
                    /\ session_start_ms' = SessionStartMs(firebase_key.v)
                    /\ UNCHANGED reports
    /\ UNCHANGED <<configVars, mainVars, storeVars, msg, validation, found, student_data,
                   rfid, firebase_key, granted, entry_store>>

\* Lines 148-180: read the clock, build the entry, write it.
SaveAttendanceSet(current_time_ms, raises) ==
    /\ pc = "attendance_set"
    /\ LET path == AttendancePath(AttendanceSessionKey, CredentialKey)
           attendance_data ==
               AttendanceData(Method, student_data, current_time_ms, session_start_ms)
       IN  /\ trace' = trace \o
                <<Effect("clock", "time.time", ToString(current_time_ms), TRUE),
                  Effect("write_attendance", path, attendance_data.timeIn, ~ raises)>>
           /\ IF raises
              THEN Finish("Error saving attendance") /\ UNCHANGED <<attendance, granted>>
              ELSE /\ attendance' = DbSet(attendance, path, attendance_data)
                   /\ granted' = {g \in granted : g.path # path}
                                 \cup {[path |-> path, val |-> attendance_data]}
                   /\ Finish("Attendance Saved to Firebase!")
    /\ UNCHANGED <<configVars, mainVars, students, active, sessions, localVars, entry_store>>

\* Line 328: on_message returns; its locals die with it.
Return ==
    /\ pc = "done"
    /\ pc' = "idle"
    /\ msg' = NoMessage
    /\ validation' = NoValidation
    /\ found' = FALSE
    /\ student_data' = NoStudent
    /\ rfid' = ""
    /\ firebase_key' = JNull
    /\ session_start_ms' = 0
    /\ trace' = <<>>
    /\ reports' = <<>>
    /\ entry_store' = storeVars
    /\ UNCHANGED <<configVars, mainVars, storeVars, granted>>

Next ==
    \/ \E rc \in {0, 5} : OnConnect(rc)
    \/ \E m \in Messages : Deliver(m)
    \/ Dispatch
    \/ \E raises \in BOOLEAN : CheckStudentByRfid(raises)
    \/ \E raises \in BOOLEAN : CheckStudentByFingerprint(raises)
    \/ \E rc \in PublishRcs : Publish(rc)
    \/ \E raises \in BOOLEAN : GetActiveSession(raises)
    \/ \E raises \in BOOLEAN : SaveAttendanceGet(raises)
    \/ \E t \in 0..MaxNow, raises \in BOOLEAN : SaveAttendanceSet(t, raises)
    \/ Return

Spec == Init /\ [][Next]_vars

(***************************************************************************)
(* The validators alone: every combination of field types is validated.    *)
(***************************************************************************)
FieldValues ==
    {JInt("1"), JInt("0"), JTrue, JFalse, JStr("1"), JStr("A1B2C3"), JFloat("1.5"),
     JNull, JArr, JObj, Absent}

ValidatorInputs ==
    {Message(MQTT_TOPICS.card, Payload("object", Object(cr, ci, Absent, Absent))) :
        cr \in FieldValues, ci \in FieldValues}
    \cup {Message(MQTT_TOPICS.fingerprint, Payload("object", Object(Absent, Absent, fr, fi))) :
        fr \in FieldValues, fi \in FieldValues}
    \cup {Message(t, Payload(k, NoFields)) :
        t \in {MQTT_TOPICS.card, MQTT_TOPICS.fingerprint},
        k \in {"jscalar", "jlist", "jnames"}}

InitValidators ==
    /\ firebase_connected = FALSE
    /\ subscribed = {}
    /\ students \in {s \in StudentStores : DOMAIN s = {"C4D5E6"} /\ ~ s["C4D5E6"].fprints.present}
    /\ active = ActiveSession(FALSE, Absent)
    /\ sessions \in {s \in SessionStores : ~ s["S2"].exists}
    /\ attendance = {}
    /\ pc = "validate"
    /\ msg \in ValidatorInputs
    /\ validation = NoValidation
    /\ found = FALSE
    /\ student_data = NoStudent
    /\ rfid = ""
    /\ firebase_key = JNull
    /\ session_start_ms = 0
    /\ trace = <<>>
    /\ reports = <<>>
    /\ granted = {}
    /\ entry_store = storeVars
    /\ MainInit

\* is_valid, message = validate_card_message(data)
ValidateCard ==
    /\ pc = "validate"
    /\ msg.topic = MQTT_TOPICS.card
    /\ validation' = validate_card_message(msg.payload)
    /\ pc' = "validated"
    /\ UNCHANGED <<configVars, mainVars, storeVars, msg, found, student_data, rfid,
                   firebase_key, session_start_ms, logVars, granted, entry_store>>

\* is_valid, message = validate_fingerprint_message(data)
ValidateFingerprint ==
    /\ pc = "validate"
    /\ msg.topic = MQTT_TOPICS.fingerprint
    /\ validation' = validate_fingerprint_message(msg.payload)
    /\ pc' = "validated"
    /\ UNCHANGED <<configVars, mainVars, storeVars, msg, found, student_data, rfid,
                   firebase_key, session_start_ms, logVars, granted, entry_store>>

NextValidators == ValidateCard \/ ValidateFingerprint

SpecValidators == InitValidators /\ [][NextValidators]_vars

(***************************************************************************)
(* The store is shared: while the handler runs, and between messages, other *)
(* clients of the database change it.  done and raised are the instant the  *)
(* handler is left, so a change there is a change between messages.         *)
(***************************************************************************)
StoreOpen == pc \notin {"done", "raised"}

\* entry_store after a change of the store by another client.
EntryAfter(st, ac, se) ==
    IF pc = "idle" THEN <<st, ac, se, attendance>> ELSE entry_store

\* sessions/active is pointed at session k (read at line 111).
SetActive(k) ==
    /\ StoreOpen
    /\ active # ActiveSession(TRUE, JStr(k))
    /\ active' = ActiveSession(TRUE, JStr(k))
    /\ entry_store' = EntryAfter(students, active', sessions)
    /\ UNCHANGED <<configVars, mainVars, students, sessions, attendance, pc, localVars,
                   logVars, granted>>

\* Session k is started at time t: sessions/{k}/started is written (read at
\* lines 129-143).
StartSession(k, t) ==
    /\ StoreOpen
    /\ sessions[k] # Session(TRUE, JStr(t))
    /\ sessions' = [sessions EXCEPT ![k] = Session(TRUE, JStr(t))]
    /\ entry_store' = EntryAfter(students, active, sessions')
    /\ UNCHANGED <<configVars, mainVars, students, active, attendance, pc, localVars,
                   logVars, granted>>

RolloverMessages ==
    {Message(MQTT_TOPICS.card, Payload("object", Object(JInt("1"), JStr("A1B2C3"), Absent, Absent)))}

InitRollover ==
    /\ firebase_connected = TRUE
    /\ subscribed = {}
    /\ students = ("A1B2C3" :> StudentA(JTrue)) @@ ("C4D5E6" :> StudentB(TRUE))
    /\ active = ActiveSession(TRUE, JStr("S1"))
    /\ sessions = ("S1" :> Session(TRUE, JStr("1970-01-01T00:00:00.001Z")))
                    @@ ("S2" :> Session(FALSE, Absent))
    /\ attendance = {}
    /\ pc = "idle"
    /\ msg = NoMessage
    /\ validation = NoValidation
    /\ found = FALSE
    /\ student_data = NoStudent
    /\ rfid = ""
    /\ firebase_key = JNull
    /\ session_start_ms = 0
    /\ trace = <<>>
    /\ reports = <<>>
    /\ granted = {}
    /\ entry_store = storeVars
    /\ MainInit

NextRollover ==
    \/ \E rc \in {0, 5} : OnConnect(rc)
    \/ \E m \in RolloverMessages : Deliver(m)
    \/ Dispatch
    \/ \E raises \in BOOLEAN : CheckStudentByRfid(raises)
    \/ \E rc \in PublishRcs : Publish(rc)
    \/ \E raises \in BOOLEAN : GetActiveSession(raises)
    \/ \E raises \in BOOLEAN : SaveAttendanceGet(raises)
    \/ \E t \in 0..MaxNow, raises \in BOOLEAN : SaveAttendanceSet(t, raises)
    \/ Return
    \/ \E k \in SessionKeys : SetActive(k)
    \/ \E k \in SessionKeys, t \in DOMAIN IsoMs : StartSession(k, t)

SpecRollover == InitRollover /\ [][NextRollover]_vars

\* users/students/{key} is written by another client (read at lines 77-78, 91-92).
PutStudent(key, data) ==
    /\ StoreOpen
    /\ IF key \in DOMAIN students THEN students[key] # data ELSE TRUE
    /\ students' = (key :> data) @@ students
    /\ entry_store' = EntryAfter(students', active, sessions)
    /\ UNCHANGED <<configVars, mainVars, active, sessions, attendance, pc, localVars,
                   logVars, granted>>

\* users/students/{key} is deleted by another client.
RemoveStudent(key) ==
    /\ StoreOpen
    /\ key \in DOMAIN students
    /\ students' = [k \in DOMAIN students \ {key} |-> students[k]]
    /\ entry_store' = EntryAfter(students', active, sessions)
    /\ UNCHANGED <<configVars, mainVars, active, sessions, attendance, pc, localVars,
                   logVars, granted>>

RevokeMessages ==
    {Message(MQTT_TOPICS.card, Payload("object", Object(JInt("1"), JStr("A1B2C3"), Absent, Absent))),
     Message(MQTT_TOPICS.fingerprint, Payload("object", Object(Absent, Absent, JInt("2"), JInt("7"))))}

InitRevoke ==
    /\ firebase_connected = TRUE
    /\ subscribed = {}
    /\ students = ("A1B2C3" :> StudentA(JTrue)) @@ ("C4D5E6" :> StudentB(TRUE))
    /\ active = ActiveSession(TRUE, JStr("S1"))
    /\ sessions = ("S1" :> Session(TRUE, JStr("1970-01-01T00:00:00.001Z")))
                    @@ ("S2" :> Session(FALSE, Absent))
    /\ attendance = {}
    /\ pc = "idle"
    /\ msg = NoMessage
    /\ validation = NoValidation
    /\ found = FALSE
    /\ student_data = NoStudent
    /\ rfid = ""
    /\ firebase_key = JNull
    /\ session_start_ms = 0
    /\ trace = <<>>
    /\ reports = <<>>
    /\ granted = {}
    /\ entry_store = storeVars
    /\ MainInit

NextRevoke ==
    \/ \E rc \in {0, 5} : OnConnect(rc)
    \/ \E m \in RevokeMessages : Deliver(m)
    \/ Dispatch
    \/ \E raises \in BOOLEAN : CheckStudentByRfid(raises)
    \/ \E raises \in BOOLEAN : CheckStudentByFingerprint(raises)
    \/ \E rc \in PublishRcs : Publish(rc)
    \/ \E raises \in BOOLEAN : GetActiveSession(raises)
    \/ \E raises \in BOOLEAN : SaveAttendanceGet(raises)
    \/ \E t \in 0..MaxNow, raises \in BOOLEAN : SaveAttendanceSet(t, raises)
    \/ Return
    \/ \E r \in {JTrue, JFalse} : PutStudent("A1B2C3", StudentA(r))
    \/ RemoveStudent("A1B2C3")

SpecRevoke == InitRevoke /\ [][NextRevoke]_vars

(***************************************************************************)
(* Shutdown: signal_handler and the tail of main (lines 38-42, 395-410).    *)
(* loop_stop() asks the network loop thread to terminate and joins it; the  *)
(* thread leaves its loop between callbacks, and an exception that escaped  *)
(* on_message has ended it already.                                         *)
(***************************************************************************)
\* SIGINT: signal_handler sets running to False.  A handler in progress has
\* the signal noted in its trace.
Signal ==
    /\ running
    /\ main_pc # "complete"
    /\ running' = FALSE
    /\ trace' = IF pc \in {"idle", "raised"} THEN trace
                ELSE Append(trace, Effect("signal", "SIGINT", "", TRUE))
    /\ UNCHANGED <<configVars, storeVars, pc, localVars, reports, granted,
                   entry_store, main_pc, loop_thread, teardown>>

\* Lines 396-398: while running: time.sleep(0.1) sees running False.
ExitWaitLoop ==
    /\ main_pc = "wait"
    /\ ~ running
    /\ main_pc' = "loop_stop"
    /\ UNCHANGED <<configVars, storeVars, pc, localVars, logVars, granted,
                   entry_store, running, loop_thread, teardown>>

\* Line 404: loop_stop() is called and sets the thread's terminate flag.
LoopStopCall ==
    /\ main_pc = "loop_stop"
    /\ main_pc' = "join"
    /\ teardown' = Append(teardown, "loop_stop")
    /\ loop_thread' = "terminating"
    /\ UNCHANGED <<configVars, storeVars, pc, localVars, logVars, granted,
                   entry_store, running>>

\* The network loop thread sees the terminate flag between callbacks and ends.
ThreadExit ==
    /\ loop_thread = "terminating"
    /\ pc = "idle"
    /\ loop_thread' = "stopped"
    /\ UNCHANGED <<configVars, storeVars, pc, localVars, logVars, granted,
                   entry_store, running, main_pc, teardown>>

\* The join inside loop_stop() returns: the thread has ended.
LoopJoinedNoWait == TRUE

LoopJoined == loop_thread = "stopped" \/ pc = "raised"

\* Line 404 returns.
LoopStopReturn ==
    /\ main_pc = "join"
    /\ LoopJoined
    /\ main_pc' = "disconnect"
    /\ UNCHANGED <<configVars, storeVars, pc, localVars, logVars, granted,
                   entry_store, running, loop_thread, teardown>>

\* Line 405.
Disconnect ==
    /\ main_pc = "disconnect"
    /\ main_pc' = "delete_app"
    /\ teardown' = Append(teardown, "disconnect")
    /\ UNCHANGED <<configVars, storeVars, pc, localVars, logVars, granted,
                   entry_store, running, loop_thread>>

\* Lines 407-410: the app is deleted only if Firebase was connected.
DeleteApp ==
    /\ main_pc = "delete_app"
    /\ main_pc' = "complete"
    /\ teardown' = IF firebase_connected THEN Append(teardown, "delete_app")
                   ELSE teardown
    /\ UNCHANGED <<configVars, storeVars, pc, localVars, logVars, granted,
                   entry_store, running, loop_thread>>

ShutdownMessages ==
    {Message(MQTT_TOPICS.card, Payload("object", Object(JInt("1"), JStr("A1B2C3"), Absent, Absent))),
     Message(MQTT_TOPICS.card, Payload("undecodable", NoFields))}

InitShutdown ==
    /\ firebase_connected \in BOOLEAN
    /\ subscribed = {}
    /\ students = ("A1B2C3" :> StudentA(JTrue)) @@ ("C4D5E6" :> StudentB(TRUE))
    /\ active = ActiveSession(TRUE, JStr("S1"))
    /\ sessions = ("S1" :> Session(TRUE, JStr("1970-01-01T00:00:00.001Z")))
                    @@ ("S2" :> Session(FALSE, Absent))
    /\ attendance = {}
    /\ pc = "idle"
    /\ msg = NoMessage
    /\ validation = NoValidation
    /\ found = FALSE
    /\ student_data = NoStudent
    /\ rfid = ""
    /\ firebase_key = JNull
    /\ session_start_ms = 0
    /\ trace = <<>>
    /\ reports = <<>>
    /\ granted = {}
    /\ entry_store = storeVars
    /\ MainInit

\* A step of the handler in progress.
HandlerStep ==
    \/ Dispatch
    \/ \E raises \in BOOLEAN : CheckStudentByRfid(raises)
    \/ \E rc \in PublishRcs : Publish(rc)
    \/ \E raises \in BOOLEAN : GetActiveSession(raises)
    \/ \E raises \in BOOLEAN : SaveAttendanceGet(raises)
    \/ \E t \in 0..MaxNow, raises \in BOOLEAN : SaveAttendanceSet(t, raises)
    \/ Return

\* A step of main after the signal.
MainStep ==
    ExitWaitLoop \/ LoopStopCall \/ LoopStopReturn \/ Disconnect \/ DeleteApp

NextShutdown ==
    \/ \E rc \in {0, 5} : OnConnect(rc)
    \/ \E m \in ShutdownMessages : Deliver(m)
    \/ HandlerStep
    \/ Signal
    \/ MainStep
    \/ ThreadExit

\* main's statements run on; the store calls and the publish of a handler
\* return or raise; the loop thread tests its terminate flag after every
\* callback.
SpecShutdown ==
    /\ InitShutdown
    /\ [][NextShutdown]_vars
    /\ WF_vars(MainStep)
    /\ WF_vars(HandlerStep)
    /\ SF_vars(ThreadExit)

(***************************************************************************)
(* Properties.                                                             *)
(***************************************************************************)
Ops(op) == {i \in DOMAIN trace : trace[i].op = op}
Count(op) == Cardinality(Ops(op))
OkCount(op) == Cardinality({i \in Ops(op) : trace[i].ok})
LastReport == IF reports = <<>> THEN "" ELSE reports[Len(reports)]
Lookups == Ops("lookup_rfid") \cup Ops("lookup_fingerprint")

\* sessions/active names a session whose start time can be read and parsed.
ActiveSessionRecordable ==
    /\ active.present
    /\ active.firebaseKey.t = "str"
    /\ active.firebaseKey.v \in DOMAIN sessions
    /\ sessions[active.firebaseKey.v].exists
    /\ sessions[active.firebaseKey.v].started.t = "str"
    /\ sessions[active.firebaseKey.v].started.v \in DOMAIN IsoMs

\* The handler has finished a well-formed card event that the lookup resolved to
\* a record with registered = true.
C1_Case ==
    /\ pc = "done"
    /\ msg.topic = MQTT_TOPICS.card
    /\ validation.is_valid
    /\ found
    /\ student_data.registered = JTrue

\* C1 as stated: a well-formed card event resolving to a registered=true
\* record always ends with exactly one unlock publish and exactly one
\* attendance write.
C1_ExactlyOnePublishAndOneWrite ==
    C1_Case => Count("publish") = 1 /\ OkCount("write_attendance") = 1

\* C1, amended: a well-formed card event that the lookup resolves to a
\* registered=true record makes exactly one unlock publish call ("OK" to the
\* lock-open topic) and at most one attendance write; the write happens
\* exactly when the publish returned rc 0, no store call raised and
\* sessions/active names an existing session whose started field parses.
C1_OnePublishAtMostOneWrite ==
    C1_Case =>
        /\ Count("publish") = 1
        /\ \A i \in Ops("publish") :
              trace[i].target = "smartguard/lock/open" /\ trace[i].payload = "OK"
        /\ Count("write_attendance") <= 1
        /\ OkCount("write_attendance") = 1
              <=> ((\A i \in DOMAIN trace : trace[i].ok) /\ ActiveSessionRecordable)

C1_Witness == C1_Case /\ Count("publish") = 1 /\ OkCount("write_attendance") = 1

\* C2: once an event has resolved to a record whose registered flag is false or
\* absent, the handler makes no unlock publish and no attendance write and
\* never reads sessions/active.
C2_DeniedNoSideEffects ==
    (found /\ student_data.registered \in {JFalse, Absent}) =>
        /\ Count("publish") = 0
        /\ Count("write_attendance") = 0
        /\ Count("read_active") = 0
        /\ Count("read_session") = 0
        /\ attendance = entry_store[4]

C2_Witness ==
    /\ pc = "done"
    /\ found
    /\ student_data.registered \in {JFalse, Absent}
    /\ Lookups # {}
    /\ LastReport = "User is NOT registered - Access DENIED"

\* C3 as stated: an unlock is published only when the resolved record's
\* registered attribute is the boolean true, and every other value is denied.
C3_AllowIffRegisteredIsTrue ==
    /\ Count("publish") > 0 => student_data.registered = JTrue
    /\ (pc = "done" /\ found /\ student_data.registered # JTrue)
          => LastReport = "User is NOT registered - Access DENIED"

\* The payload misses a required field of its topic or carries one of the wrong
\* type: card_reader, fingerprint_reader and fingerprint_id are JSON integers,
\* card_id is a JSON string.
Malformed(m) ==
    \/ m.payload.kind # "object"
    \/ /\ m.topic = MQTT_TOPICS.card
       /\ ~ (m.payload.obj["card_reader"].t = "int" /\ m.payload.obj["card_id"].t = "str")
    \/ /\ m.topic = MQTT_TOPICS.fingerprint
       /\ ~ (/\ m.payload.obj["fingerprint_reader"].t = "int"
             /\ m.payload.obj["fingerprint_id"].t = "int")

\* C4 as stated: an event on the card or fingerprint topic whose payload misses
\* a required field or carries one of the wrong type causes no identity
\* lookup, no publish and no session-store access.
C4_MalformedNoLookup ==
    (pc # "idle" /\ msg.topic \in {MQTT_TOPICS.card, MQTT_TOPICS.fingerprint}
        /\ Malformed(msg)) => trace = <<>>

\* C5 as stated: validate_card_message accepts exactly the objects whose
\* card_reader is a JSON integer and whose card_id is a JSON string, and
\* validate_fingerprint_message exactly those whose fingerprint_reader and
\* fingerprint_id are JSON integers; a boolean, float, string, null, array,
\* object or absent field is rejected.
C5_AcceptsExactlyTypedFields ==
    pc = "validated" => (validation.is_valid <=> ~ Malformed(msg))

\* C6: within one event the session pointer is read, the session is read and
\* the attendance entry is written only after an unlock publish that returned
\* rc 0; a failed publish is the last thing the handler does, and the store
\* is as it was when the handler was entered.
C6_PublishBeforeAttendance ==
    /\ \A i \in DOMAIN trace :
          trace[i].op \in {"read_active", "read_session", "write_attendance"}
             => \E j \in 1..(i - 1) : trace[j].op = "publish" /\ trace[j].ok
    /\ pc \in {"get_active_session", "save_attendance", "attendance_set"}
          => OkCount("publish") = 1
    /\ \A j \in Ops("publish") :
          ~ trace[j].ok => /\ j = Len(trace)
                           /\ pc = "done"
                           /\ LastReport = "Failed to publish unlock command"
                           /\ storeVars = entry_store

C6_Witness ==
    /\ pc = "done"
    /\ \E j \in Ops("publish") : ~ trace[j].ok
    /\ Lookups # {}

\* The four attendance-stage failures, read off the store.
NoActiveSession == ~ active.present \/ active.firebaseKey = Absent

ActiveKeyNamed ==
    active.present /\ active.firebaseKey.t = "str" /\ active.firebaseKey.v # ""

SessionNotFound ==
    /\ ActiveKeyNamed
    /\ \/ active.firebaseKey.v \notin DOMAIN sessions
       \/ ~ sessions[active.firebaseKey.v].exists

MissingStartTime ==
    /\ ActiveKeyNamed
    /\ active.firebaseKey.v \in DOMAIN sessions
    /\ sessions[active.firebaseKey.v].exists
    /\ sessions[active.firebaseKey.v].started = Absent

MalformedTimestamp ==
    /\ ActiveKeyNamed
    /\ active.firebaseKey.v \in DOMAIN sessions
    /\ sessions[active.firebaseKey.v].exists
    /\ sessions[active.firebaseKey.v].started # Absent
    /\ ~ (/\ sessions[active.firebaseKey.v].started.t = "str"
          /\ sessions[active.firebaseKey.v].started.v \in DOMAIN IsoMs)

AttendanceStageFailure ==
    NoActiveSession \/ SessionNotFound \/ MissingStartTime \/ MalformedTimestamp

AttendanceFailureReports ==
    {"No active session - Attendance not saved", "Session does not exist",
     "Session start time not found", "Error saving attendance"}

\* C7: when the unlock was published and the attendance stage meets
\* NoActiveSession, SessionNotFound, MissingStartTime or MalformedTimestamp,
\* the handler never reaches the write, and it ends normally with a failure
\* reported, no attendance write attempted, the store as it was on entry and
\* exactly one publish made.
C7_AttendanceFailureKeepsUnlock ==
    (OkCount("publish") >= 1 /\ AttendanceStageFailure) =>
        /\ pc \in {"get_active_session", "save_attendance", "done"}
        /\ Count("write_attendance") = 0
        /\ Count("publish") = 1
        /\ storeVars = entry_store
        /\ pc = "done" => LastReport \in AttendanceFailureReports

C7_Witness ==
    /\ pc = "done"
    /\ OkCount("publish") = 1
    /\ MissingStartTime
    /\ LastReport = "Session start time not found"

\* C8 as stated: no failure while processing a message lets an exception
\* escape on_message, and a message whose processing failed leaves the store
\* as it was, so later messages are processed as if it had not been received.
C8_NoFailureEscapes ==
    /\ pc # "raised"
    /\ (pc = "done" /\ OkCount("write_attendance") = 0) => storeVars = entry_store

\* C9: with the store not connected at startup no event makes a store call,
\* a publish or a write, and every valid event ends reported as skipped; and
\* when an identity lookup raises, the event is not found: the handler ends
\* with no publish and no write.
C9_StoreFailureNeverGrants ==
    /\ ~ firebase_connected =>
          /\ trace = <<>>
          /\ storeVars = entry_store
          /\ validation.is_valid =>
                /\ pc = "done"
                /\ LastReport = "Firebase not connected, skipping database check"
    /\ \A i \in Lookups :
          ~ trace[i].ok => /\ ~ found
                           /\ Len(trace) = 1
                           /\ pc = "done"
                           /\ LastReport = "NOT Found in Firebase"
                           /\ storeVars = entry_store

C9_Witness ==
    /\ pc = "done"
    /\ \E i \in Lookups : ~ trace[i].ok
    /\ msg.topic = MQTT_TOPICS.card
    /\ msg.payload.obj["card_id"].v \in DOMAIN students
    /\ Truthy(students[msg.payload.obj["card_id"].v].registered)

\* C10: a session holds at most one attendance entry per credential key, each
\* stored at sessions/{key}/attendance/{credentialKey}, and the entry held is
\* the one the most recent grant for that credential in that session wrote.
C10_OneEntryPerCredential ==
    /\ \A e1, e2 \in attendance : e1.path = e2.path => e1 = e2
    /\ \A e \in attendance :
          \E k \in SessionKeys, c \in DOMAIN students : e.path = AttendancePath(k, c)
    /\ attendance = granted

\* A second grant has just replaced a different entry of the same credential.
C10_Witness ==
    /\ pc = "done"
    /\ \E i \in Ops("write_attendance") :
          /\ trace[i].ok
          /\ \E e \in entry_store[4] :
                e.path = trace[i].target /\ e.val.timeIn # trace[i].payload
          /\ Cardinality({e \in attendance : e.path = trace[i].target}) = 1

\* The positions of StudentOrder whose record is in the store and maps the
\* template's key to true.
TemplateHolders(fingerprint_id) ==
    {i \in DOMAIN StudentOrder :
        /\ StudentOrder[i] \in DOMAIN students
        /\ students[StudentOrder[i]].fprints.present
        /\ PyStr(fingerprint_id) \in FpKeys
        /\ students[StudentOrder[i]].fprints.map[PyStr(fingerprint_id)] = JTrue}

FingerprintLookupDone == \E i \in Ops("lookup_fingerprint") : trace[i].ok

\* C11: a fingerprint lookup that did not raise yields the first record, in
\* the store's iteration order, whose fprints maps str(template id) to true,
\* with that record's key, and not-found when no record has such an entry
\* (no fprints mapping, key missing or key mapped to false).  The result is
\* thus fixed by the identity collection and the template id alone, so
\* resolving the same id again against an unchanged collection yields it again.
C11_FirstMatchInOrder ==
    FingerprintLookupDone =>
        LET holders == TemplateHolders(msg.payload.obj["fingerprint_id"])
        IN  IF holders = {}
            THEN ~ found /\ student_data = NoStudent /\ rfid = ""
            ELSE LET first == CHOOSE i \in holders : \A j \in holders : i <= j
                 IN  /\ found
                     /\ rfid = StudentOrder[first]
                     /\ student_data = students[StudentOrder[first]]

\* Two records hold the template; the first in iteration order was returned.
C11_Witness ==
    /\ FingerprintLookupDone
    /\ Cardinality(TemplateHolders(msg.payload.obj["fingerprint_id"])) = 2
    /\ found
    /\ rfid = StudentOrder[1]

\* C12 as stated: the client subscribes only to the card-verify and
\* fingerprint-verify topics, and the handler is never entered with a message
\* of the lock-open topic.
C12_UnlockTopicPublishOnly ==
    /\ subscribed \subseteq {MQTT_TOPICS.card, MQTT_TOPICS.fingerprint}
    /\ pc # "idle" => msg.topic # MQTT_TOPICS.lock_open

\* The decimal numeral of an integer, as str() writes it.
DigitText == <<"0", "1", "2", "3", "4", "5", "6", "7", "8", "9">>

RECURSIVE Numeral(_)
Numeral(n) ==
    IF n < 10 THEN DigitText[n + 1]
    ELSE Numeral(n \div 10) \o DigitText[(n % 10) + 1]

DecimalString(n) == IF n < 0 THEN "-" \o Numeral(0 - n) ELSE Numeral(n)

\* The credential the event stands for, read off the message and the store:
\* the card_id, or the key of the first record holding the template.
EventCredential ==
    IF msg.topic = MQTT_TOPICS.card THEN msg.payload.obj["card_id"].v
    ELSE LET holders == TemplateHolders(msg.payload.obj["fingerprint_id"])
         IN  IF holders = {} THEN ""
             ELSE StudentOrder[CHOOSE i \in holders : \A j \in holders : i <= j]

\* C13: the entry a granted event writes is stored under the card_id (card
\* event, method "RFID") or under the key of the record the scan matched
\* (fingerprint event, method "Fingerprint") in the session sessions/active
\* names; its name and studentId are those of that credential's record
\* ("Unknown" for an attribute the record lacks) and its timeIn is the decimal
\* numeral of the clock reading minus the session's start, negative included.
C13_EntryContents ==
    \A i \in Ops("write_attendance") :
        trace[i].ok =>
            /\ EventCredential \in DOMAIN students
            /\ trace[i].target = AttendancePath(active.firebaseKey.v, EventCredential)
            /\ trace[i - 1].op = "clock"
            /\ \E e \in attendance, now \in 0..MaxNow :
                  /\ e.path = trace[i].target
                  /\ trace[i - 1].payload = ToString(now)
                  /\ e.val.method =
                        (IF msg.topic = MQTT_TOPICS.card THEN "RFID" ELSE "Fingerprint")
                  /\ e.val.name =
                        (IF students[EventCredential].name = Absent THEN "Unknown"
                         ELSE students[EventCredential].name.v)
                  /\ e.val.studentId =
                        (IF students[EventCredential].student_id = Absent THEN "Unknown"
                         ELSE students[EventCredential].student_id.v)
                  /\ e.val.timeIn =
                        DecimalString(now - IsoMs[sessions[active.firebaseKey.v].started.v])

\* A fingerprint event was granted before the session's start: timeIn is "-1".
C13_Witness ==
    /\ pc = "done"
    /\ msg.topic = MQTT_TOPICS.fingerprint
    /\ \E i \in Ops("write_attendance") :
          /\ trace[i].ok
          /\ trace[i].payload = "-1"
          /\ \E e \in attendance :
                e.path = trace[i].target /\ e.val.timeIn = "-1" /\ e.val.name = "Jane Doe"

\* The fields a validation message names.
NamedFields(message) ==
    CASE message = "Missing required fields. Expected: ['card_reader', 'card_id']"
            -> {"card_reader", "card_id"}
      [] message = "Missing required fields. Expected: ['fingerprint_reader', 'fingerprint_id']"
            -> {"fingerprint_reader", "fingerprint_id"}
      [] message = "card_reader must be an integer" -> {"card_reader"}
      [] message = "card_id must be a string" -> {"card_id"}
      [] message = "fingerprint_reader must be an integer" -> {"fingerprint_reader"}
      [] message = "fingerprint_id must be an integer" -> {"fingerprint_id"}
      [] OTHER -> {}

\* The required fields of a topic, reader first.
RequiredFields(topic) ==
    IF topic = MQTT_TOPICS.card THEN <<"card_reader", "card_id">>
    ELSE <<"fingerprint_reader", "fingerprint_id">>

FieldOf(m, f) == IF m.payload.kind = "object" THEN m.payload.obj[f] ELSE Absent

\* The JSON type a required field must have.
WellTyped(f, x) == IF f = "card_id" THEN x.t = "str" ELSE x.t = "int"

\* The required fields of m that are missing or mistyped.
Offending(m) ==
    {f \in Fields :
        /\ \E i \in 1..2 : RequiredFields(m.topic)[i] = f
        /\ ~ WellTyped(f, FieldOf(m, f))}

\* The validator returned a failure.
ValidationFailed == pc = "validated" /\ ~ validation.exc /\ ~ validation.is_valid

\* C14 as stated: a validation failure names exactly the required fields that
\* are missing or mistyped.
C14_NamesExactlyOffending ==
    ValidationFailed => NamedFields(validation.message) = Offending(msg)

\* A boolean passes the validators' integer test.
PassesTypeTest(f, x) == WellTyped(f, x) \/ (f # "card_id" /\ x.t = "bool")

\* C14, amended: when a required field is absent the failure lists both
\* required fields of the kind; when both are present it names exactly one
\* field, the reader field if that fails the type test and the id field
\* otherwise (a boolean passing for an integer), and the field named is
\* mistyped.
C14_NamesAllWhenMissingElseFirstMistyped ==
    ValidationFailed =>
        LET required == RequiredFields(msg.topic)
            named == NamedFields(validation.message)
        IN  IF \E i \in 1..2 : FieldOf(msg, required[i]) = Absent
            THEN named = {required[1], required[2]}
            ELSE /\ named = {IF ~ PassesTypeTest(required[1], FieldOf(msg, required[1]))
                             THEN required[1] ELSE required[2]}
                 /\ named \subseteq Offending(msg)

\* Both card fields are present and mistyped: only card_reader is named.
C14_Witness ==
    /\ ValidationFailed
    /\ msg.topic = MQTT_TOPICS.card
    /\ Offending(msg) = {"card_reader", "card_id"}
    /\ FieldOf(msg, "card_reader") # Absent
    /\ FieldOf(msg, "card_id") # Absent
    /\ NamedFields(validation.message) = {"card_reader"}

\* The lines that report how a message ended.
TerminalReports ==
    {"JSON Parse Error", "Unknown topic", "Error processing message", "INVALID",
     "Firebase not connected, skipping database check", "NOT Found in Firebase",
     "User is NOT registered - Access DENIED", "Failed to publish unlock command",
     "No active session - Attendance not saved", "Session does not exist",
     "Session start time not found", "Error saving attendance",
     "Attendance Saved to Firebase!"}

\* C15 as stated: when on_message is left, by return or otherwise, exactly one
\* terminal outcome has been reported, and it is the last line reported.
C15_OneOutcomeReported ==
    pc \in {"done", "raised"} =>
        /\ Cardinality({i \in DOMAIN reports : reports[i] \in TerminalReports}) = 1
        /\ LastReport \in TerminalReports

\* C17: while a message is handled users/students, sessions/active and every
\* session's own fields stay as they were when the handler was entered; the
\* attendance collection differs from its state at entry only after a
\* successful attendance write, and then only at the one path
\* sessions/{key}/attendance/{credentialKey} that write targeted.
C17_OnlyAttendanceWrite ==
    /\ students = entry_store[1]
    /\ active = entry_store[2]
    /\ sessions = entry_store[3]
    /\ OkCount("write_attendance") = 0 => attendance = entry_store[4]
    /\ Count("write_attendance") <= 1
    /\ \A i \in Ops("write_attendance") :
          /\ \E k \in SessionKeys, c \in DOMAIN students :
                trace[i].target = AttendancePath(k, c)
          /\ {e \in attendance : e.path # trace[i].target}
                = {e \in entry_store[4] : e.path # trace[i].target}

\* A write has just been made while another credential's entry was in the store.
C17_Witness ==
    /\ pc = "done"
    /\ \E i \in Ops("write_attendance") :
          /\ trace[i].ok
          /\ \E e \in entry_store[4] : e.path # trace[i].target /\ e \in attendance
          /\ attendance # entry_store[4]

\* C20: a message on the lock-open topic, the echoed "OK" included, or on any
\* topic other than card-verify and fingerprint-verify causes no store call
\* and no publish and leaves the store as it was; and no message causes more
\* than one publish.  Each publish then belongs to one card-verify or
\* fingerprint-verify message of its own.
C20_NoPublishFeedback ==
    /\ (pc # "idle" /\ msg.topic \notin {MQTT_TOPICS.card, MQTT_TOPICS.fingerprint})
          => /\ trace = <<>>
             /\ storeVars = entry_store
             /\ pc \in {"on_message", "done", "raised"}
    /\ Count("publish") <= 1
    /\ Count("publish") = 1
          => msg.topic \in {MQTT_TOPICS.card, MQTT_TOPICS.fingerprint}

\* A well-formed fingerprint object arrived on the lock-open topic and was
\* turned away as an unknown topic, with a registered holder of the template in
\* the store.
C20_Witness ==
    /\ pc = "done"
    /\ msg.topic = MQTT_TOPICS.lock_open
    /\ msg.payload.kind = "object"
    /\ msg.payload.obj["fingerprint_id"] = JInt("7")
    /\ firebase_connected
    /\ TemplateHolders(JInt("7")) # {}
    /\ LastReport = "Unknown topic"

\* C16: whatever changes sessions/active and the sessions undergo while an
\* event is handled, the handler reads sessions/active once and one session's
\* start once, the session read is the one the pointer named when it was read,
\* the entry is written under that same session key, and its timeIn is the
\* clock reading minus the start that was read.
C16_OneSessionPerComputation ==
    \A w \in Ops("write_attendance") :
        /\ Count("read_active") = 1
        /\ Count("read_session") = 1
        /\ trace[w - 1].op = "clock"
        /\ \E a \in Ops("read_active"), r \in Ops("read_session"), k \in SessionKeys :
              /\ a < r /\ r < w
              /\ trace[a].ok /\ trace[r].ok
              /\ trace[a].payload = k
              /\ trace[r].target = SessionPath(k)
              /\ trace[r].payload \in DOMAIN IsoMs
              /\ trace[w].target = AttendancePath(k, msg.payload.obj["card_id"].v)
              /\ \E now \in 0..MaxNow :
                    /\ trace[w - 1].payload = ToString(now)
                    /\ trace[w].payload = DecimalString(now - IsoMs[trace[r].payload])
                    /\ trace[w].ok =>
                          \E e \in attendance :
                              e.path = trace[w].target /\ e.val.timeIn = trace[w].payload

\* The pointer moved to another session, whose start differs from the one read,
\* after the handler had read it, and the entry has been written.
C16_Witness ==
    /\ pc = "done"
    /\ \E w \in Ops("write_attendance"), a \in Ops("read_active"), r \in Ops("read_session") :
          /\ trace[w].ok
          /\ active.firebaseKey.v # trace[a].payload
          /\ sessions[active.firebaseKey.v].exists
          /\ sessions[active.firebaseKey.v].started.v \in DOMAIN IsoMs
          /\ sessions[active.firebaseKey.v].started.v # trace[r].payload

\* A step in which the handler's identity lookup returns.
LookupStep ==
    /\ pc \in {"check_student_by_rfid", "check_student_by_fingerprint"}
    /\ pc' # pc

\* C18: the branch an event takes after its lookup is fixed by the event's
\* topic and payload and by users/students as it stands when the lookup is
\* made: the handler goes on to publish exactly when the lookup did not raise
\* and the credential's record is in the store with registered true at that
\* moment, holding that record as fetched; otherwise the event ends there.  No
\* publish is made by an event whose lookup did not fetch a record with
\* registered true, so a credential whose flag has been set to false or whose
\* record has been removed gets no publish from any later event.
C18_LookupDecidesAfresh ==
    /\ [][LookupStep =>
            IF /\ trace'[Len(trace')].ok
               /\ EventCredential \in DOMAIN students
               /\ students[EventCredential].registered = JTrue
            THEN /\ pc' = "publish"
                 /\ found'
                 /\ rfid' = EventCredential
                 /\ student_data' = students[EventCredential]
            ELSE pc' = "done"]_vars
    /\ [](Count("publish") > 0 =>
            /\ found
            /\ student_data.registered = JTrue
            /\ \E i \in Lookups, j \in Ops("publish") : trace[i].ok /\ i < j)
    /\ [](pc = "publish" => found /\ student_data.registered = JTrue)

\* A card that had been granted (its entry is in the session) is presented
\* again after its flag was set to false: denied, nothing published.
C18_Witness ==
    /\ pc = "done"
    /\ msg.topic = MQTT_TOPICS.card
    /\ msg.payload.obj["card_id"].v = "A1B2C3"
    /\ \E e \in attendance : e.path = AttendancePath("S1", "A1B2C3") /\ e.val.method = "RFID"
    /\ Lookups # {}
    /\ Count("publish") = 0
    /\ LastReport = "User is NOT registered - Access DENIED"

TeardownCalls == <<"loop_stop", "disconnect", "delete_app">>

\* C19: once running is false main leaves its wait loop and reaches
\* shutdown-complete, having called loop_stop, disconnect and, only when
\* Firebase was connected, delete_app, in that order and none of them before
\* the signal; a handler in progress is left only by its own return or
\* exception, it has ended before disconnect and delete_app are called, and
\* after teardown has passed loop_stop no handler step, so no store call, is
\* made.
C19_OrderlyShutdown ==
    /\ [](/\ Len(teardown) <= 3
          /\ \A i \in DOMAIN teardown : teardown[i] = TeardownCalls[i]
          /\ teardown # <<>> => ~ running
          /\ main_pc # "wait" => ~ running
          /\ main_pc = "complete" =>
                Len(teardown) = (IF firebase_connected THEN 3 ELSE 2)
          /\ main_pc \in {"disconnect", "delete_app", "complete"} =>
                pc \in {"idle", "raised"})
    /\ [][/\ (pc # "idle" /\ pc' = "idle") => pc = "done"
          /\ main_pc \in {"disconnect", "delete_app", "complete"} =>
                (pc' = pc /\ trace' = trace /\ storeVars' = storeVars)]_vars
    /\ (~ running) ~> (main_pc = "complete")

\* The signal arrived while a handler was running; loop_stop has been called
\* and is waiting, and the handler has gone on to write its attendance entry.
C19_Witness ==
    /\ main_pc = "join"
    /\ pc = "done"
    /\ \E i \in Ops("signal"), w \in Ops("write_attendance") : i < w /\ trace[w].ok
    /\ attendance # entry_store[4]

====
